---- MODULE Spec2Model ----
(***************************************************************************)
(* Singular Spectrum Transformation (fastsst/sst.py).                      *)
(*                                                                         *)
(* Three state machines over one set of variables:                         *)
(*   Spec        the scan loop _score_offline with _create_hankel,         *)
(*   SpecHankel  _create_hankel applied to arbitrary arguments,            *)
(*   SpecFacade  SingularSpectrumTransformation: __init__, attribute       *)
(*               reassignment and score_offline.                           *)
(*                                                                         *)
(* The numeric collaborators (power_method, lanczos, eig_tridiag,          *)
(* numpy.linalg.svd) work on reals and are not part of sst.py: the values  *)
(* they return are abstract (a score class, the identity of the vector u), *)
(* and n_components, rank and eps, which are only forwarded to them, are   *)
(* not carried through the scan.                                           *)
(***************************************************************************)
EXTENDS Integers, Sequences, FiniteSets

\* ------------------------------------------------------------------ bounds
MaxN == 6
MaxOrder == 2
MaxWin == 2
MaxLag == 1
NoiseDraws == 2

VARIABLES
    \* _score_offline: arguments and locals
    x, order, win_length, lag, use_lanczos,
    pc, t, x0, score, X_history, X_test, P_history, P_test, err,
    \* history of the completed loop iterations
    log,
    \* _create_hankel called on its own: arguments and the matrices returned
    h_pc, h_start, h_end, h_first, h_second,
    \* SingularSpectrumTransformation: the object, and the last score_offline call
    self, called, again, arg, pre, ret, rescaled, scan_args

scanVars == <<x, order, win_length, lag, use_lanczos, pc, t, x0, score,
              X_history, X_test, P_history, P_test, err, log>>

hankelVars == <<h_pc, h_start, h_end, h_first, h_second>>

facadeVars == <<self, called, again, arg, pre, ret, rescaled, scan_args>>

vars == <<scanVars, hankelVars, facadeVars>>

\* ------------------------------------------------------------ input domain
\* A rescaled series of length n: strictly positive, pairwise distinct values,
\* so that an entry read from the wrong position is a different value.
Series(n) == [k \in 0..(n - 1) |-> k + 1]

\* Integer settings of order and win_length: the positive ones and a negative one.
OrderVals == {-1} \cup (1..MaxOrder)
WinVals == {-1} \cup (1..MaxWin)
LagVals == (-1)..MaxLag

\* Outcomes of np.random.rand, one per element of the range.
Noise == 1..NoiseDraws

\* Classes of a comparator's result: 0 is exactly 0.0, 1 is any other value.
ScoreVals == {0, 1}

\* --------------------------------------------------------- _create_hankel
\* A slice bound k of a length-n array: negative bounds count from the end,
\* and the result is clamped to [0, n].
ClampIdx(k, n) ==
    IF k < 0 THEN (IF k + n < 0 THEN 0 ELSE k + n)
    ELSE (IF k > n THEN n ELSE k)

\* The positions x[a:b] reads, in order.
SlicePositions(n, a, b) ==
    LET lo == ClampIdx(a, n)
        hi == ClampIdx(b, n)
    IN  [k \in 1..(IF hi > lo THEN hi - lo ELSE 0) |-> lo + k - 1]

\* x[a:b]
PySlice(xx, n, a, b) ==
    LET pos == SlicePositions(n, a, b)
    IN  [k \in 1..Len(pos) |-> xx[pos[k]]]

\* X[:,i] = s for a column of w rows: sizes must agree, a source of size 1 is
\* broadcast, anything else raises.
Assignable(s, w) == Len(s) = w \/ Len(s) = 1

ColumnOf(s, w) == IF Len(s) = w THEN s ELSE [k \in 1..w |-> s[1]]

HankelError == [ok |-> FALSE, rows |-> 0, cols |-> 0, X |-> <<>>]

\* Mutant: column i is taken i places after the window instead of before it.
CreateHankelForward(xx, n, ord, start, end) ==
    LET w == end - start
        src == [i \in 0..(ord - 1) |-> PySlice(xx, n, start + i, end + i)]
    IN  IF w < 0 \/ ord < 0
        THEN HankelError
        ELSE IF \E i \in 0..(ord - 1) : ~Assignable(src[i], w)
        THEN HankelError
        ELSE [ok |-> TRUE, rows |-> w, cols |-> ord,
              X |-> [r \in 0..(w - 1) |->
                        [i \in 0..(ord - 1) |-> ColumnOf(src[i], w)[r + 1]]]]

CreateHankel(xx, n, ord, start, end) ==
    LET w == end - start
        src == [i \in 0..(ord - 1) |-> PySlice(xx, n, start - i, end - i)]
    IN  IF w < 0 \/ ord < 0
        THEN HankelError
        ELSE IF \E i \in 0..(ord - 1) : ~Assignable(src[i], w)
        THEN HankelError
        ELSE [ok |-> TRUE, rows |-> w, cols |-> ord,
              X |-> [r \in 0..(w - 1) |->
                        [i \in 0..(ord - 1) |-> ColumnOf(src[i], w)[r + 1]]]]

\* ------------------------------------------------------- X.T @ X
RECURSIVE DotCols(_, _, _, _)
DotCols(X, rows, i, j) ==
    IF rows = 0 THEN 0
    ELSE X[rows - 1][i] * X[rows - 1][j] + DotCols(X, rows - 1, i, j)

Gram(H) ==
    [i \in 0..(H.cols - 1) |-> [j \in 0..(H.cols - 1) |-> DotCols(H.X, H.rows, i, j)]]

\* ---------------------------------------------------------- _score_offline
\* Mutants: a start index without its margin of one, and one that forgets the
\* columns of the Hankel matrix.
StartIdxNoMargin(w, ord, l) == w + ord + l
StartIdxNoOrder(w, ord, l) == w + l + 1

StartIdx(w, ord, l) == w + ord + l + 1

\* Mutant: the loop stops one index early.
EndIdxExclusive(n) == n

EndIdx(n) == n + 1

HistoryWindow(tt, w, l) == <<tt - w - l, tt - l>>
TestWindow(tt, w) == <<tt - w, tt>>
ScoreIndex(tt) == tt - 1

NoSeed == [kind |-> "none", u |-> 0, noise |-> 0, unit |-> FALSE]

\* x0 = np.random.rand(order); x0 /= norm(x0)
InitialSeed(r) == [kind |-> "init", u |-> 0, noise |-> r, unit |-> TRUE]

\* Mutant: the returned vector is reused as it is.
NextSeedUnperturbed(x1, r) == [kind |-> "raw", u |-> x1, noise |-> 0, unit |-> TRUE]

\* x0 = x1 + eps * np.random.rand(x0.size); x0 /= norm(x0)
NextSeed(x1, r) == [kind |-> "perturbed", u |-> x1, noise |-> r, unit |-> TRUE]

\* The vector u that power_method returns at scan index tt, named by the index.
PowerMethodVector(tt) == tt

\* A local matrix that has not been assigned yet.
NoMatrix == [ok |-> FALSE, rows |-> 0, cols |-> 0, X |-> <<>>]

\* x.size
N == Cardinality(DOMAIN x)

HistoryHankel(tt) ==
    CreateHankel(x, N, order, HistoryWindow(tt, win_length, lag)[1],
                 HistoryWindow(tt, win_length, lag)[2])

TestHankel(tt) ==
    CreateHankel(x, N, order, TestWindow(tt, win_length)[1],
                 TestWindow(tt, win_length)[2])

LogEntry(tt, seed, u) ==
    [t |-> tt,
     hist |-> HistoryWindow(tt, win_length, lag),
     test |-> TestWindow(tt, win_length),
     seed |-> seed, u |-> u, idx |-> ScoreIndex(tt)]

ScanInputs ==
    /\ \E n \in 1..MaxN : x = Series(n)
    /\ order \in OrderVals
    /\ win_length \in WinVals
    /\ lag \in LagVals
    /\ use_lanczos \in BOOLEAN

ScanIdle ==
    /\ pc = "call" /\ t = 0 /\ x0 = NoSeed /\ score = <<>>
    /\ X_history = NoMatrix /\ X_test = NoMatrix
    /\ P_history = <<>> /\ P_test = <<>>
    /\ err = "none" /\ log = <<>>

\* ------------------------------------------------- attribute values
\* A Python value of an attribute: None, an int, or a float (of integral value).
None == [k |-> "none", v |-> 0]
PyInt(n) == [k |-> "int", v |-> n]
PyFloat(n) == [k |-> "float", v |-> n]

NoCall == [made |-> FALSE, order |-> None, win_length |-> None, lag |-> None,
           n_components |-> None, rank |-> None, use_lanczos |-> FALSE]
NoReturn == [kind |-> "none", msg |-> ""]
NoObject == [win_length |-> None, n_components |-> None, order |-> None,
             lag |-> None, use_lanczos |-> FALSE, rank_lanczos |-> None]

HankelIdle ==
    /\ h_pc = "idle" /\ h_start = 0 /\ h_end = 0
    /\ h_first = NoMatrix /\ h_second = NoMatrix

FacadeIdle ==
    /\ self = NoObject /\ called = FALSE /\ again = FALSE /\ arg = "none" /\ pre = NoObject
    /\ ret = NoReturn /\ rescaled = FALSE /\ scan_args = NoCall

Init == ScanInputs /\ ScanIdle /\ HankelIdle /\ FacadeIdle

inputs == <<x, order, win_length, lag, use_lanczos>>
matrices == <<X_history, X_test, P_history, P_test>>

\* Lines 93-101: start_idx, end_idx, the initial seed and the zeroed scores.
ScanInit ==
    /\ pc = "call"
    /\ order >= 0
    /\ \E r \in Noise : x0' = InitialSeed(r)
    /\ score' = [k \in 0..(N - 1) |-> 0]
    /\ t' = StartIdx(win_length, order, lag)
    /\ pc' = "loop"
    /\ UNCHANGED <<hankelVars, facadeVars>>
    /\ UNCHANGED <<inputs, matrices, err, log>>

\* Lines 97-98 with a negative order: the allocation of x0 raises.
ScanInitRaise ==
    /\ pc = "call"
    /\ order < 0
    /\ pc' = "error"
    /\ err' = "ValueError"
    /\ UNCHANGED <<hankelVars, facadeVars>>
    /\ UNCHANGED <<inputs, matrices, t, x0, score, log>>

\* Lines 102-122, one iteration of the loop on the Lanczos path.
StepLanczos ==
    /\ pc = "loop"
    /\ t < EndIdx(N)
    /\ use_lanczos
    /\ HistoryHankel(t).ok /\ TestHankel(t).ok
    /\ X_history' = HistoryHankel(t)
    /\ X_test' = TestHankel(t)
    /\ P_history' = Gram(HistoryHankel(t))
    /\ P_test' = Gram(TestHankel(t))
    /\ \E s \in ScoreVals : score' = [score EXCEPT ![ScoreIndex(t)] = s]
    /\ \E r \in Noise : x0' = NextSeed(PowerMethodVector(t), r)
    /\ log' = Append(log, LogEntry(t, x0, PowerMethodVector(t)))
    /\ t' = t + 1
    /\ UNCHANGED <<hankelVars, facadeVars>>
    /\ UNCHANGED <<inputs, pc, err>>

\* Lines 102-116 and 124, one iteration of the loop on the SVD path.
StepSvd ==
    /\ pc = "loop"
    /\ t < EndIdx(N)
    /\ ~use_lanczos
    /\ HistoryHankel(t).ok /\ TestHankel(t).ok
    /\ X_history' = HistoryHankel(t)
    /\ X_test' = TestHankel(t)
    /\ P_history' = Gram(HistoryHankel(t))
    /\ P_test' = Gram(TestHankel(t))
    /\ \E s \in ScoreVals : score' = [score EXCEPT ![ScoreIndex(t)] = s]
    /\ log' = Append(log, LogEntry(t, NoSeed, 0))
    /\ t' = t + 1
    /\ UNCHANGED <<hankelVars, facadeVars>>
    /\ UNCHANGED <<inputs, pc, x0, err>>

\* Lines 106-113 when _create_hankel raises: the scan ends with the error.
StepRaise ==
    /\ pc = "loop"
    /\ t < EndIdx(N)
    /\ ~(HistoryHankel(t).ok /\ TestHankel(t).ok)
    /\ X_history' = HistoryHankel(t)
    /\ X_test' = IF HistoryHankel(t).ok THEN TestHankel(t) ELSE X_test
    /\ pc' = "error"
    /\ err' = "ValueError"
    /\ UNCHANGED <<hankelVars, facadeVars>>
    /\ UNCHANGED <<inputs, P_history, P_test, t, x0, score, log>>

\* Line 126: the loop is exhausted and the scores are returned.
ScanReturn ==
    /\ pc = "loop"
    /\ t >= EndIdx(N)
    /\ pc' = "done"
    /\ UNCHANGED <<hankelVars, facadeVars>>
    /\ UNCHANGED <<inputs, matrices, t, x0, score, err, log>>

Next == ScanInit \/ ScanInitRaise \/ StepLanczos \/ StepSvd \/ StepRaise \/ ScanReturn

Spec == Init /\ [][Next]_vars

\* ------------------------------------------------ properties of the scan
\* The hyperparameters the scan is documented for.
ValidSetting == order >= 1 /\ win_length >= 1 /\ lag >= 0

\* startIdx as the specification gives it.
ExpectedStart == win_length + order + lag + 1

Scanning == pc \in {"loop", "done"}

ZeroPrefix ==
    /\ DOMAIN score = 0..(N - 1)
    /\ \A k \in 0..(N - 1) : k < ExpectedStart - 1 => score[k] = 0

AllZeroWhenNoIndex ==
    (pc = "done" /\ ExpectedStart > N + 1) =>
        /\ log = <<>>
        /\ \A k \in 0..(N - 1) : score[k] = 0

\* C1 as stated: for every integer hyperparameter setting the scan raises no
\* error and returns N scores, zero below position startIdx - 1 and all zero
\* when startIdx > N + 1.
C1_AnyIntegerSetting ==
    /\ pc # "error"
    /\ Scanning => (ZeroPrefix /\ AllZeroWhenNoIndex)

\* C1, amended: for order >= 1, windowLength >= 1 and lag >= 0 the scan raises
\* no error and returns N scores, zero below position startIdx - 1 and all zero
\* (the loop body never runs) when startIdx > N + 1.
C1_ValidSetting ==
    ValidSetting =>
        /\ pc # "error"
        /\ Scanning => (ZeroPrefix /\ AllZeroWhenNoIndex)

\* A finished scan of a valid setting that scored an index with a nonzero value
\* and left the positions before it at zero.
C1_Witness ==
    /\ pc = "done" /\ ValidSetting
    /\ Len(log) >= 1
    /\ score[ExpectedStart - 1] = 1
    /\ \A k \in 0..(ExpectedStart - 2) : score[k] = 0

\* What the iterations completed so far did: the k-th one ran at
\* t = startIdx + k - 1 on the windows [t-w-lag, t-lag) and [t-w, t) and wrote
\* score[t-1]; the loop is at the next index; a returned scan went through N.
C3_Iterations ==
    (pc \in {"loop", "done", "error"} /\ order >= 1) =>
        /\ \A k \in 1..Len(log) :
               /\ log[k].t = ExpectedStart + k - 1
               /\ log[k].hist = <<log[k].t - win_length - lag, log[k].t - lag>>
               /\ log[k].test = <<log[k].t - win_length, log[k].t>>
               /\ log[k].idx = log[k].t - 1
               /\ log[k].t <= N
        /\ t = ExpectedStart + Len(log)
        /\ \A k \in DOMAIN score :
               score[k] # 0 => \E j \in 1..Len(log) : log[j].idx = k
        /\ pc = "done" =>
               Len(log) = (IF ExpectedStart <= N THEN N + 1 - ExpectedStart ELSE 0)
        /\ (Len(log) >= 1 /\ pc # "error" /\ lag >= 0) =>
               LET tt == log[Len(log)].t
               IN  /\ X_history.rows = win_length /\ X_history.cols = order
                   /\ X_test.rows = win_length /\ X_test.cols = order
                   /\ \A r \in 0..(win_length - 1), i \in 0..(order - 1) :
                          /\ X_history.X[r][i] = x[tt - win_length - lag - i + r]
                          /\ X_test.X[r][i] = x[tt - win_length - i + r]

\* One step of the loop moves to the next index and writes no score but
\* score[t-1].
C3_Step ==
    (pc = "loop" /\ pc' = "loop") =>
        /\ t' = t + 1
        /\ Len(log') = Len(log) + 1
        /\ \A k \in DOMAIN score : k # t - 1 => score'[k] = score[k]

\* C3: the scan is one pass over t = startIdx..N in increasing order; at each t
\* it builds the history matrix from [t-w-lag, t-lag) and the test matrix from
\* [t-w, t) and writes the result to score[t-1] once, and to no other entry.
C3_SinglePass == []C3_Iterations /\ [][C3_Step]_vars

\* A returned scan of three indices on windows of two samples.
C3_Witness ==
    /\ pc = "done" /\ Len(log) = 3 /\ win_length = 2 /\ ValidSetting
    /\ log[3].t = N

\* The positions of the series a call _create_hankel(x, order, start, end) on
\* window w reads.
WindowReads(w) ==
    {w[1] - i + r : i \in 0..(order - 1), r \in 0..(w[2] - w[1] - 1)}

WindowInRange(w) ==
    /\ w[1] - order >= 0
    /\ w[2] <= N
    /\ WindowReads(w) \subseteq 0..(N - 1)

\* C8: for order >= 1, windowLength >= 1 and lag >= 0 every call of the Hankel
\* builder during a scan has start - order >= 0 and end <= N, reads only
\* positions in [0, N-1], and never raises.
C8_WindowsInRange ==
    ValidSetting =>
        /\ pc # "error"
        /\ \A k \in 1..Len(log) :
               WindowInRange(log[k].hist) /\ WindowInRange(log[k].test)
        /\ (pc = "loop" /\ t < N + 1) =>
               /\ WindowInRange(<<t - win_length - lag, t - lag>>)
               /\ WindowInRange(<<t - win_length, t>>)
               /\ HistoryHankel(t).ok /\ TestHankel(t).ok

\* A scan with two columns and a positive lag that has built its matrices at the
\* last index N.
C8_Witness ==
    /\ ValidSetting /\ order = 2 /\ lag >= 1
    /\ Len(log) >= 2
    /\ log[Len(log)].t = N
    /\ X_history.ok /\ X_test.ok

IsInitialSeed(sd) == sd.kind = "init" /\ sd.unit /\ sd.noise \in Noise

IsSeedFrom(sd, u) ==
    sd.kind = "perturbed" /\ sd.u = u /\ sd.unit /\ sd.noise \in Noise

\* C9: on the Lanczos path the first index gets the seed initialised before the
\* loop and each later index t gets normalize(u + eps * random) for the u
\* returned at t-1; on the SVD path the comparator gets no seed and the seed
\* is never updated.
C9_SeedThreading ==
    (Scanning \/ (pc = "error" /\ order >= 1)) =>
        IF use_lanczos
        THEN /\ \A k \in 1..Len(log) :
                    /\ log[k].u = log[k].t
                    /\ IF k = 1 THEN IsInitialSeed(log[k].seed)
                       ELSE IsSeedFrom(log[k].seed, log[k - 1].u)
             /\ IF log = <<>> THEN IsInitialSeed(x0)
                ELSE IsSeedFrom(x0, log[Len(log)].u)
        ELSE /\ \A k \in 1..Len(log) : log[k].seed = NoSeed
             /\ IsInitialSeed(x0)

\* A Lanczos scan whose third index was seeded from the second index's vector.
C9_Witness ==
    /\ use_lanczos /\ pc = "done" /\ Len(log) >= 3
    /\ IsSeedFrom(log[3].seed, log[2].u)
    /\ log[3].seed # log[2].seed

\* ------------------------------------------- _create_hankel on its own
HankelInputs ==
    /\ \E n \in 1..MaxN : x = Series(n)
    /\ order \in 0..MaxOrder
    /\ h_start \in (-1)..MaxN
    /\ h_end \in (-1)..(MaxN + 1)

HankelInit ==
    /\ HankelInputs
    /\ win_length = 0 /\ lag = 0 /\ use_lanczos = FALSE
    /\ ScanIdle
    /\ h_pc = "args" /\ h_first = NoMatrix /\ h_second = NoMatrix
    /\ FacadeIdle

\* A call of _create_hankel(x, order, start, end).
HankelCall ==
    /\ h_pc = "args"
    /\ h_first' = CreateHankel(x, N, order, h_start, h_end)
    /\ h_pc' = "once"
    /\ UNCHANGED <<scanVars, facadeVars, h_start, h_end, h_second>>

\* A second call with the same arguments.
HankelCallAgain ==
    /\ h_pc = "once"
    /\ h_second' = CreateHankel(x, N, order, h_start, h_end)
    /\ h_pc' = "twice"
    /\ UNCHANGED <<scanVars, facadeVars, h_start, h_end, h_first>>

HankelNext == HankelCall \/ HankelCallAgain

SpecHankel == HankelInit /\ [][HankelNext]_vars

\* The builder's precondition, with a window of non-negative length.
HankelPrecondition ==
    /\ h_start - order >= 0
    /\ h_end <= N
    /\ h_end >= h_start

MaxInt == 2

IntVals == 1..MaxInt
Numbers == {PyInt(n) : n \in IntVals} \cup {PyFloat(2)}
Values == Numbers \cup {None}

\* Settings of lag and rank_lanczos, from which no other option is derived:
\* unset, an int, and a number that is no int.
LeafValues == {None, PyInt(1), PyFloat(2)}

\* What score_offline may be handed as x.
XKinds == {"ndarray1d", "ndarray2d", "list"}

\* __init__: the attributes are the constructor's arguments, unchanged.
Construct(w, nc, ord, lg, ul, rk) ==
    [win_length |-> w, n_components |-> nc, order |-> ord, lag |-> lg,
     use_lanczos |-> ul, rank_lanczos |-> rk]

\* a // 2, a % 2, 2 * a and 2 * a - 1 on a number: the result has the operand's type.
FloorDiv2(a) == [k |-> a.k, v |-> a.v \div 2]
Mod2(a) == a.v % 2
Twice(a) == [k |-> a.k, v |-> 2 * a.v]
TwiceMinusOne(a) == [k |-> a.k, v |-> 2 * a.v - 1]

\* isinstance(a, int)
IsInt(a) == a.k = "int"

\* Mutant: the order is derived from the window on every call.
ResolveOrderAlways(s) == [s EXCEPT !.order = s.win_length]

\* Lines 59-61.
ResolveOrder(s) ==
    IF s.order = None THEN [s EXCEPT !.order = s.win_length] ELSE s

\* Line 64 raises TypeError when the order is None.
LagRaises(s) == s.lag = None /\ s.order = None

\* Mutant: the lag is derived from the window length, not from the order.
ResolveLagFromWindow(s) ==
    IF s.lag = None THEN [s EXCEPT !.lag = FloorDiv2(s.win_length)] ELSE s

\* Lines 62-64.
ResolveLag(s) ==
    IF s.lag = None THEN [s EXCEPT !.lag = FloorDiv2(s.order)] ELSE s

\* Line 67 raises TypeError when n_components is None.
RankRaises(s) == s.rank_lanczos = None /\ s.n_components = None

\* Lines 65-70.
ResolveRank(s) ==
    IF s.rank_lanczos = None
    THEN [s EXCEPT !.rank_lanczos =
              IF Mod2(s.n_components) = 0
              THEN Twice(s.n_components)
              ELSE TwiceMinusOne(s.n_components)]
    ELSE s

\* Lines 72-78: the message of the first assertion that fails, or "".
Validate(xk, s) ==
    IF xk = "list" THEN "input array must be numpy array."
    ELSE IF xk # "ndarray1d" THEN "input array dimension must be 1."
    ELSE IF ~IsInt(s.win_length) THEN "window length must be int."
    ELSE IF ~IsInt(s.n_components) THEN "number of components must be int."
    ELSE IF ~IsInt(s.order) THEN "order of partial time series must be int."
    ELSE IF ~IsInt(s.lag)
         THEN "lag between test series and history series must be int."
    ELSE IF ~IsInt(s.rank_lanczos) THEN "rank for lanczos must be int."
    ELSE ""

\* Lines 83-85: the arguments handed to _score_offline.
ScanCall(s) ==
    [made |-> TRUE, order |-> s.order, win_length |-> s.win_length,
     lag |-> s.lag, n_components |-> s.n_components,
     rank |-> s.rank_lanczos, use_lanczos |-> s.use_lanczos]

FacadeInit ==
    /\ \E w \in Values, nc \in Values, ord \in Values, lg \in LeafValues,
          ul \in BOOLEAN, rk \in LeafValues :
          self = Construct(w, nc, ord, lg, ul, rk)
    /\ called = FALSE /\ again = FALSE /\ arg = "none" /\ pre = NoObject
    /\ ret = NoReturn /\ rescaled = FALSE /\ scan_args = NoCall
    /\ x = <<>> /\ order = 0 /\ win_length = 0 /\ lag = 0 /\ use_lanczos = FALSE
    /\ ScanIdle /\ HankelIdle

\* score_offline(x) when default resolution raises (lines 59-70).
ScoreOfflineTypeError ==
    \E xk \in XKinds :
        LET s1 == ResolveOrder(self)
            s2 == ResolveLag(s1)
        IN  /\ LagRaises(s1) \/ RankRaises(s2)
            /\ self' = IF LagRaises(s1) THEN s1 ELSE s2
            /\ called' = TRUE /\ again' = called /\ arg' = xk /\ pre' = self
            /\ ret' = [kind |-> "TypeError", msg |-> ""]
            /\ rescaled' = FALSE
            /\ scan_args' = NoCall
            /\ UNCHANGED <<scanVars, hankelVars>>

\* score_offline(x) when an assertion fails (lines 59-78).
ScoreOfflineInvalid ==
    \E xk \in XKinds :
        LET s1 == ResolveOrder(self)
            s2 == ResolveLag(s1)
            s3 == ResolveRank(s2)
        IN  /\ ~LagRaises(s1) /\ ~RankRaises(s2)
            /\ Validate(xk, s3) # ""
            /\ self' = s3
            /\ called' = TRUE /\ again' = called /\ arg' = xk /\ pre' = self
            /\ ret' = [kind |-> "AssertionError", msg |-> Validate(xk, s3)]
            /\ rescaled' = FALSE
            /\ scan_args' = NoCall
            /\ UNCHANGED <<scanVars, hankelVars>>

\* score_offline(x) that rescales x, runs the scan and returns its scores
\* (lines 59-87).
ScoreOfflineReturn ==
    \E xk \in XKinds :
        LET s1 == ResolveOrder(self)
            s2 == ResolveLag(s1)
            s3 == ResolveRank(s2)
        IN  /\ ~LagRaises(s1) /\ ~RankRaises(s2)
            /\ Validate(xk, s3) = ""
            /\ self' = s3
            /\ called' = TRUE /\ again' = called /\ arg' = xk /\ pre' = self
            /\ rescaled' = TRUE
            /\ scan_args' = ScanCall(s3)
            /\ ret' = [kind |-> "score", msg |-> ""]
            /\ UNCHANGED <<scanVars, hankelVars>>

\* sst.win_length = v between two calls.
SetWinLength ==
    /\ called
    /\ \E v \in Values : self' = [self EXCEPT !.win_length = v]
    /\ UNCHANGED <<scanVars, hankelVars, called, again, arg, pre, ret, rescaled,
                   scan_args>>

\* sst.n_components = v between two calls.
SetNComponents ==
    /\ called
    /\ \E v \in Values : self' = [self EXCEPT !.n_components = v]
    /\ UNCHANGED <<scanVars, hankelVars, called, again, arg, pre, ret, rescaled,
                   scan_args>>

FacadeNext ==
    \/ ScoreOfflineTypeError
    \/ ScoreOfflineInvalid
    \/ ScoreOfflineReturn
    \/ SetWinLength
    \/ SetNComponents

SpecFacade == FacadeInit /\ [][FacadeNext]_vars

\* ---------------------------------------------- properties of the facade
Resolved == {"order", "lag", "rank_lanczos"}

\* The rule-of-thumb defaults, from the attributes as they were at the call.
DefaultOrder == IF pre.order = None THEN pre.win_length ELSE pre.order

DefaultLag ==
    IF pre.lag = None
    THEN [k |-> DefaultOrder.k, v |-> DefaultOrder.v \div 2]
    ELSE pre.lag

DefaultRank ==
    IF pre.rank_lanczos = None
    THEN [k |-> pre.n_components.k,
          v |-> IF pre.n_components.v % 2 = 0
                THEN 2 * pre.n_components.v
                ELSE 2 * pre.n_components.v - 1]
    ELSE pre.rank_lanczos

\* C5: the scan gets order = windowLength, lag = order // 2 of the resolved
\* order and rankLanczos = 2n (n even) or 2n - 1 (n odd) for the options that
\* were unset, and every option that was set as it was set.
C5_Defaults ==
    scan_args.made =>
        /\ scan_args.order = DefaultOrder
        /\ scan_args.lag = DefaultLag
        /\ scan_args.rank = DefaultRank
        /\ scan_args.win_length = pre.win_length
        /\ scan_args.n_components = pre.n_components
        /\ scan_args.use_lanczos = pre.use_lanczos

\* A scan called with an explicit order that differs from the window length
\* and with the lag and the rank left unset.
C5_Witness ==
    /\ scan_args.made
    /\ pre.order # None /\ pre.order # pre.win_length
    /\ pre.lag = None /\ pre.rank_lanczos = None
    /\ scan_args.lag.v # pre.win_length.v \div 2

Positive(a) == a.k = "int" /\ a.v >= 1

\* C6: the hyperparameters handed to the scan are positive integers with
\* nComponents <= rankLanczos <= order.
C6_InvariantHolds ==
    scan_args.made =>
        /\ Positive(scan_args.order)
        /\ Positive(scan_args.win_length)
        /\ Positive(scan_args.lag)
        /\ Positive(scan_args.rank)
        /\ scan_args.n_components.v <= scan_args.rank.v
        /\ scan_args.rank.v <= scan_args.order.v

\* The call's input is invalid: x is not a 1-D array, or windowLength or
\* nComponents is no int, or an option that was set is no int (an option left
\* unset takes the type of the attribute it is derived from).
InvalidInput ==
    \/ arg # "ndarray1d"
    \/ pre.win_length.k # "int"
    \/ pre.n_components.k # "int"
    \/ \E f \in Resolved : pre[f] # None /\ pre[f].k # "int"

\* C7: an invalid input makes score_offline fail with the validation error,
\* before the series is rescaled and before the scan is called.
C7_ValidationError ==
    (called /\ InvalidInput) =>
        /\ ret.kind = "AssertionError"
        /\ ~rescaled
        /\ ~scan_args.made

\* C10 as stated: after any call the three resolved options are not None, and
\* a call leaves each of them as it was.
C10_AlwaysResolved ==
    called =>
        /\ \A f \in Resolved : self[f] # None
        /\ again => \A f \in Resolved : self[f] = pre[f]

\* C10, amended: a call never changes an option among order, lag, rank_lanczos
\* that is not None; a call made with numeric windowLength and nComponents
\* (the attributes here are None or numbers) raises no TypeError, and after it,
\* returned or failed in validation, none of the three is None.
C10_ResolvedOnce ==
    called =>
        /\ \A f \in Resolved : pre[f] # None => self[f] = pre[f]
        /\ (pre.win_length # None /\ pre.n_components # None) =>
               /\ ret.kind # "TypeError"
               /\ \A f \in Resolved : self[f] # None
        /\ ret.kind = "score" => \A f \in Resolved : self[f] # None

\* A second call, made after windowLength was set to another value, that
\* failed validation and left the order resolved by the first call.
C10_Witness ==
    /\ again
    /\ ret.kind = "AssertionError"
    /\ self.win_length = pre.win_length
    /\ self.order = pre.order
    /\ self.order # self.win_length
    /\ self.order.k = "float"

====
